---------------------------- MODULE Spec2Model ----------------------------
(***************************************************************************)
(* Speaker attribution for timestamped transcript segments                 *)
(* (scripts/whisper_pyannote_helper.py): the three heuristic change-point  *)
(* detectors, the acoustic overlap adapter, the segment merger and the     *)
(* tiered-fallback orchestrator process_audio, with its caller main.       *)
(*                                                                         *)
(* Times are exact multiples of 0.01 s, written as integers (80 = 0.8 s);  *)
(* the inputs keep every compared difference off the thresholds where the  *)
(* binary floats of the program could round either way.                    *)
(* Confidences are integers in units of 1/160 (128 = 0.8), so that the     *)
(* halvings of the merger stay exact.  A text is a sequence of one-        *)
(* character strings, so that strip, lower, split and the substring test   *)
(* `in` are computed as Python computes them.  A Python dict is a record;  *)
(* a key that is absent from the dict is absent from the record's DOMAIN.  *)
(***************************************************************************)
EXTENDS Integers, Sequences, FiniteSets, TLC

(***************************************************************************)
(* Python string operations on character sequences.                        *)
(***************************************************************************)
UpperChars == <<"A", "B", "C", "D", "E", "F", "G", "H", "I", "J", "K", "L", "M",
                "N", "O", "P", "Q", "R", "S", "T", "U", "V", "W", "X", "Y", "Z">>

LowerChars == <<"a", "b", "c", "d", "e", "f", "g", "h", "i", "j", "k", "l", "m",
                "n", "o", "p", "q", "r", "s", "t", "u", "v", "w", "x", "y", "z">>

\* str.isspace for one character
IsSpace(c) == c \in {" ", "\t", "\n"}

\* the lower-case letter of each upper-case letter
LowerOf ==
    [c \in {UpperChars[i] : i \in 1..Len(UpperChars)} |->
        LowerChars[CHOOSE i \in 1..Len(UpperChars) : UpperChars[i] = c]]

\* str.lower for one character
LowerChar(c) == IF c \in DOMAIN LowerOf THEN LowerOf[c] ELSE c

\* str.lower()
RECURSIVE Lower(_)
Lower(t) == IF t = <<>> THEN <<>> ELSE <<LowerChar(Head(t))>> \o Lower(Tail(t))

\* str.lstrip()
RECURSIVE LStrip(_)
LStrip(t) ==
    IF t = <<>> THEN <<>>
    ELSE IF IsSpace(Head(t)) THEN LStrip(Tail(t)) ELSE t

\* str.rstrip()
RECURSIVE RStrip(_)
RStrip(t) ==
    IF t = <<>> THEN <<>>
    ELSE IF IsSpace(t[Len(t)]) THEN RStrip(SubSeq(t, 1, Len(t) - 1)) ELSE t

\* str.strip()
Strip(t) == RStrip(LStrip(t))

\* the first whitespace-delimited word of a text without leading whitespace
RECURSIVE FirstWord(_)
FirstWord(t) ==
    IF t = <<>> \/ IsSpace(Head(t)) THEN <<>>
    ELSE <<Head(t)>> \o FirstWord(Tail(t))

\* str.split(): the words between runs of whitespace
RECURSIVE Split(_)
Split(t) ==
    LET s == LStrip(t) IN
    IF s = <<>> THEN <<>>
    ELSE LET w == FirstWord(s)
         IN  <<w>> \o Split(SubSeq(s, Len(w) + 1, Len(s)))

\* list[:n]
Take(s, n) == SubSeq(s, 1, IF Len(s) < n THEN Len(s) ELSE n)

\* x in list
InSeq(x, s) == \E i \in 1..Len(s) : s[i] = x

\* p in t, for strings: p occurs in t as a substring
Contains(t, p) ==
    \E i \in 1..(Len(t) - Len(p) + 1) :
        \A j \in 1..Len(p) : t[i + j - 1] = p[j]

\* t.startswith(p)
StartsWith(t, p) == Len(p) <= Len(t) /\ SubSeq(t, 1, Len(p)) = p

\* t.endswith(p)
EndsWith(t, p) ==
    Len(p) <= Len(t) /\ SubSeq(t, Len(t) - Len(p) + 1, Len(t)) = p

(***************************************************************************)
(* The lexicons of the three detectors.                                    *)
(***************************************************************************)
simple_interjections ==
    { <<"y", "e", "a", "h">>,
      <<"y", "e", "s">>,
      <<"n", "o">>,
      <<"o", "k", "a", "y">>,
      <<"o", "k">>,
      <<"r", "i", "g", "h", "t">>,
      <<"e", "x", "a", "c", "t", "l", "y">>,
      <<"t", "r", "u", "e">>,
      <<"s", "u", "r", "e">>,
      <<"w", "e", "l", "l">>,
      <<"s", "o">>,
      <<"b", "u", "t">>,
      <<"a", "n", "d">>,
      <<"a", "c", "t", "u", "a", "l", "l", "y">>,
      <<"r", "e", "a", "l", "l", "y">>,
      <<"d", "e", "f", "i", "n", "i", "t", "e", "l", "y">>,
      <<"a", "b", "s", "o", "l", "u", "t", "e", "l", "y">>,
      <<"t", "o", "t", "a", "l", "l", "y">>,
      <<"c", "o", "m", "p", "l", "e", "t", "e", "l", "y">>,
      <<"h", "m", "m">>,
      <<"u", "h">>,
      <<"u", "m">>,
      <<"a", "h">> }

advanced_interjections ==
    { <<"y", "e", "a", "h">>,
      <<"y", "e", "s">>,
      <<"y", "e", "p">>,
      <<"y", "u", "p">>,
      <<"n", "o">>,
      <<"n", "o", "p", "e">>,
      <<"o", "k", "a", "y">>,
      <<"o", "k">>,
      <<"r", "i", "g", "h", "t">>,
      <<"e", "x", "a", "c", "t", "l", "y">>,
      <<"t", "r", "u", "e">>,
      <<"s", "u", "r", "e">>,
      <<"w", "e", "l", "l">>,
      <<"s", "o">>,
      <<"b", "u", "t">>,
      <<"a", "n", "d">>,
      <<"a", "c", "t", "u", "a", "l", "l", "y">>,
      <<"r", "e", "a", "l", "l", "y">>,
      <<"d", "e", "f", "i", "n", "i", "t", "e", "l", "y">>,
      <<"a", "b", "s", "o", "l", "u", "t", "e", "l", "y">>,
      <<"t", "o", "t", "a", "l", "l", "y">>,
      <<"c", "o", "m", "p", "l", "e", "t", "e", "l", "y">>,
      <<"h", "m", "m">>,
      <<"u", "h">>,
      <<"u", "m">>,
      <<"a", "h">>,
      <<"o", "h">>,
      <<"h", "e", "y">>,
      <<"a", "l", "r", "i", "g", "h", "t">>,
      <<"a", "l", "l", " ", "r", "i", "g", "h", "t">>,
      <<"p", "e", "r", "f", "e", "c", "t">>,
      <<"g", "r", "e", "a", "t">>,
      <<"n", "i", "c", "e">>,
      <<"c", "o", "o", "l">>,
      <<"a", "w", "e", "s", "o", "m", "e">>,
      <<"i", "n", "t", "o", " ", "t", "h", "e", " ", "w", "e", "e", "d", "s">>,
      <<"p", "e", "r", "f">> }

advanced_question_words ==
    { <<"w", "h", "a", "t">>,
      <<"h", "o", "w">>,
      <<"w", "h", "y">>,
      <<"w", "h", "e", "n">>,
      <<"w", "h", "e", "r", "e">>,
      <<"w", "h", "o">>,
      <<"w", "h", "i", "c", "h">>,
      <<"c", "a", "n">>,
      <<"c", "o", "u", "l", "d">>,
      <<"w", "o", "u", "l", "d">>,
      <<"s", "h", "o", "u", "l", "d">>,
      <<"d", "o">>,
      <<"d", "o", "e", "s">>,
      <<"d", "i", "d">>,
      <<"i", "s">>,
      <<"a", "r", "e">>,
      <<"w", "a", "s">>,
      <<"w", "e", "r", "e">> }

flow_indicators ==
    { <<"b", "y", " ", "t", "h", "e", " ", "w", "a", "y">>,
      <<"s", "p", "e", "a", "k", "i", "n", "g", " ", "o", "f">>,
      <<"a", "l", "l", " ", "r", "i", "g", "h", "t">>,
      <<"e", "n", "o", "u", "g", "h", " ", "o", "f", " ", "t", "h", "a", "t">> }

participant_names ==
    { <<"s", "c", "o", "t", "t">>,
      <<"w", "e", "s">>,
      <<"w", "e", "s", "t">> }

clear_speaker_changes ==
    << <<"i", "n", "t", "o", " ", "t", "h", "e", " ", "w", "e", "e", "d", "s">>,
       <<"y", "e", "a", "h", ".", " ", "p", "e", "r", "f">>,
       <<"w", "e", "l", "l", ",", " ", "i", " ", "u", "s", "e", " ", "t", "y", "p", "e", "s", "c", "r", "i", "p", "t", " ", "a", "n", "d", " ", "i", " ", "h", "a", "v", "e", " ", "b", "u", "g", "s">>,
       <<"b", "y", " ", "t", "h", "e", " ", "w", "a", "y", ",", " ", "s", "p", "e", "a", "k", "i", "n", "g", " ", "o", "f", " ", "r", "e", "a", "l", "l", "y", " ", "g", "o", "o", "d">>,
       <<"a", "l", "l", " ", "r", "i", "g", "h", "t", ".", " ", "e", "n", "o", "u", "g", "h", " ", "o", "f", " ", "t", "h", "a", "t">>,
       <<"y", "o", "u", " ", "w", "a", "n", "t", " ", "t", "o", " ", "g", "o", " ", "f", "i", "r", "s", "t">>,
       <<"a", " ", "s", "t", "r", "i", "n", "g", " ", "l", "i", "t", "e", "r", "a", "l", " ", "t", "y", "p", "e", " ", "i", "s", " ", "a">> >>

topic_shifts ==
    { <<"b", "y", " ", "t", "h", "e", " ", "w", "a", "y">>,
      <<"s", "p", "e", "a", "k", "i", "n", "g", " ", "o", "f">>,
      <<"a", "l", "l", " ", "r", "i", "g", "h", "t">>,
      <<"a", "l", "r", "i", "g", "h", "t">>,
      <<"e", "n", "o", "u", "g", "h", " ", "o", "f", " ", "t", "h", "a", "t">>,
      <<"a", "n", "y", "w", "a", "y">>,
      <<"a", "n", "y", "w", "a", "y", "s">>,
      <<"a", "c", "t", "u", "a", "l", "l", "y">>,
      <<"y", "o", "u", " ", "k", "n", "o", "w", " ", "w", "h", "a", "t">>,
      <<"l", "e", "t", " ", "m", "e", " ", "t", "e", "l", "l", " ", "y", "o", "u">> }

responses ==
    { <<"y", "e", "a", "h">>,
      <<"y", "e", "s">>,
      <<"w", "e", "l", "l">>,
      <<"o", "h">>,
      <<"n", "o">>,
      <<"r", "i", "g", "h", "t">>,
      <<"e", "x", "a", "c", "t", "l", "y">>,
      <<"t", "r", "u", "e">>,
      <<"s", "u", "r", "e">>,
      <<"o", "k", "a", "y">>,
      <<"o", "k">>,
      <<"p", "e", "r", "f", "e", "c", "t">>,
      <<"g", "r", "e", "a", "t">>,
      <<"n", "i", "c", "e">> }

balanced_question_words ==
    { <<"h", "o", "w">>,
      <<"w", "h", "a", "t">>,
      <<"w", "h", "y">>,
      <<"w", "h", "e", "n">>,
      <<"w", "h", "e", "r", "e">>,
      <<"w", "h", "o">>,
      <<"w", "h", "i", "c", "h">>,
      <<"c", "a", "n">>,
      <<"c", "o", "u", "l", "d">>,
      <<"w", "o", "u", "l", "d">>,
      <<"s", "h", "o", "u", "l", "d">>,
      <<"d", "o">>,
      <<"d", "o", "e", "s">>,
      <<"d", "i", "d">>,
      <<"i", "s">>,
      <<"a", "r", "e">> }

short_responses ==
    { <<"y", "e", "a", "h", ".">>,
      <<"y", "e", "s", ".">>,
      <<"y", "e", "a", "h">>,
      <<"y", "e", "s">>,
      <<"w", "e", "l", "l", ".">>,
      <<"o", "h", ".">>,
      <<"r", "i", "g", "h", "t", ".">>,
      <<"p", "e", "r", "f", ".">>,
      <<"p", "e", "r", "f">> }

(***************************************************************************)
(* Segments.  A transcript segment is a dict with "start", "end" and,      *)
(* unless it is malformed, "text".                                         *)
(***************************************************************************)
\* mutant of GetText: a missing text is read as the interjection "yeah"
GetText_default_yeah(segment) ==
    IF "text" \in DOMAIN segment THEN segment.text ELSE <<"y", "e", "a", "h">>

\* segment.get("text", "")
GetText(segment) == IF "text" \in DOMAIN segment THEN segment.text ELSE <<>>

\* segment.get("text", "").strip().lower()
NormText(segment) == Lower(Strip(GetText(segment)))

\* f"Speaker_{current_speaker}" for the binary speaker model
SpeakerLabel(current_speaker) ==
    IF current_speaker = 1 THEN "Speaker_1" ELSE "Speaker_2"

\* current_speaker = 2 if current_speaker == 1 else 1
Flip(current_speaker) == IF current_speaker = 1 THEN 2 ELSE 1

\* mutant of WithSpeaker: a fresh dict with the times only, instead of a copy
WithSpeaker_fresh(segment, current_speaker) ==
    [speaker_id |-> SpeakerLabel(current_speaker),
     start |-> segment.start, end |-> segment.end]

\* enhanced_segment = segment.copy(); enhanced_segment["speaker_id"] = ...
WithSpeaker(segment, current_speaker) ==
    [speaker_id |-> SpeakerLabel(current_speaker)] @@ segment

\* len(set(seg["speaker_id"] for seg in segments))
SpeakerSet(segments) == {segments[i].speaker_id : i \in 1..Len(segments)}

SpeakerCount(segments) == Cardinality(SpeakerSet(segments))

(***************************************************************************)
(* simple_speaker_change_detection                                         *)
(***************************************************************************)
\* the default of the parameter silence_threshold (0.8 s)
silence_threshold == 80

\* mutant of simple_should_change: only the first word is looked up
simple_should_change_first_word(segments, i) ==
    /\ i > 1
    /\ LET segment == segments[i]
           prev_segment == segments[i - 1]
           gap == segment.start - prev_segment.end
           segment_duration == segment.end - segment.start
           prev_duration == prev_segment.end - prev_segment.start
           words == Split(NormText(segment))
           first_word == IF words # <<>> THEN words[1] ELSE <<>>
       IN  \/ gap > silence_threshold
           \/ segment_duration < 300 /\ first_word \in simple_interjections
           \/ gap > 30 /\ prev_duration > 100

\* should_change_speaker for segments[i] (1-based; the first segment is 1)
simple_should_change(segments, i) ==
    /\ i > 1
    /\ LET segment == segments[i]
           prev_segment == segments[i - 1]
           gap == segment.start - prev_segment.end
           segment_duration == segment.end - segment.start
           prev_duration == prev_segment.end - prev_segment.start
           segment_text == NormText(segment)
           words == Split(segment_text)
           first_word == IF words # <<>> THEN words[1] ELSE <<>>
       IN  \/ gap > silence_threshold
           \/ /\ segment_duration < 300
              /\ \/ first_word \in simple_interjections
                 \/ \E k \in 1..Len(Take(words, 2)) : words[k] \in simple_interjections
           \/ gap > 30 /\ prev_duration > 100

\* the three `if` statements of the loop body that set should_change_speaker
\* for segments[i] (1-based): gap, interjection, gap after substantial content
simple_rule_matches(segments, i) ==
    IF i = 1 THEN {}
    ELSE LET segment == segments[i]
             prev_segment == segments[i - 1]
             gap == segment.start - prev_segment.end
             segment_duration == segment.end - segment.start
             prev_duration == prev_segment.end - prev_segment.start
             words == Split(NormText(segment))
         IN  {r \in 1..3 :
                 \/ r = 1 /\ gap > silence_threshold
                 \/ /\ r = 2
                    /\ segment_duration < 300
                    /\ \E k \in 1..Len(Take(words, 2)) : words[k] \in simple_interjections
                 \/ r = 3 /\ gap > 30 /\ prev_duration > 100}

\* mutant of simple_loop: every matching rule flips the speaker once more
RECURSIVE simple_loop_stacks(_, _, _, _)
simple_loop_stacks(segments, i, current_speaker, enhanced_segments) ==
    IF i > Len(segments) THEN enhanced_segments
    ELSE LET speaker == IF Cardinality(simple_rule_matches(segments, i)) % 2 = 1
                        THEN Flip(current_speaker) ELSE current_speaker
         IN  simple_loop_stacks(segments, i + 1, speaker,
                         Append(enhanced_segments, WithSpeaker(segments[i], speaker)))

RECURSIVE simple_loop(_, _, _, _)
simple_loop(segments, i, current_speaker, enhanced_segments) ==
    IF i > Len(segments) THEN enhanced_segments
    ELSE LET speaker == IF simple_should_change(segments, i)
                        THEN Flip(current_speaker) ELSE current_speaker
         IN  simple_loop(segments, i + 1, speaker,
                         Append(enhanced_segments, WithSpeaker(segments[i], speaker)))

simple_speaker_change_detection(segments) ==
    IF segments = <<>> THEN <<>> ELSE simple_loop(segments, 1, 1, <<>>)

(***************************************************************************)
(* advanced_speaker_change_detection                                       *)
(***************************************************************************)
\* the default of the parameter min_speaker_duration (1.0 s)
min_speaker_duration == 100

\* first pass: whether index i (1-based, i > 1) is appended to change_points
advanced_change_point(segments, i) ==
    /\ i > 1
    /\ LET prev_segment == segments[i - 1]
           current_segment == segments[i]
           gap == current_segment.start - prev_segment.end
           current_text == NormText(current_segment)
           prev_text == NormText(prev_segment)
           current_words == Split(current_text)
           prev_words == Split(prev_text)
           current_duration == current_segment.end - current_segment.start
       IN  \* Rule 1: any significant gap
           \/ gap > 50
           \* Rule 2: short interjections
           \/ /\ current_duration < 400
              /\ Len(current_words) <= 8
              /\ (IF current_words # <<>> THEN current_words[1] ELSE <<>>)
                     \in advanced_interjections
           \* Rule 3: question/answer patterns
           \/ EndsWith(prev_text, <<"?">>)
           \/ \E k \in 1..Len(Take(prev_words, 3)) :
                  prev_words[k] \in advanced_question_words
           \* Rule 4: very short responses
           \/ current_duration < 200 /\ Len(current_words) <= 3
           \* Rule 5: conversation flow indicators
           \/ \E phrase \in flow_indicators : Contains(current_text, phrase)
           \/ \E phrase \in advanced_interjections : Contains(current_text, phrase)
           \* Rule 6: name mentions
           \/ \E name \in participant_names : Contains(current_text, name)

\* mutant of advanced_flip: every change point flips, whatever the time
advanced_flip_ungated(segments, i, last_speaker_change_time) ==
    advanced_change_point(segments, i)

\* second pass: whether segments[i] flips the speaker
advanced_flip(segments, i, last_speaker_change_time) ==
    /\ advanced_change_point(segments, i)
    /\ segments[i].start - last_speaker_change_time > min_speaker_duration

RECURSIVE advanced_loop(_, _, _, _, _)
advanced_loop(segments, i, current_speaker, last_speaker_change_time, enhanced_segments) ==
    IF i > Len(segments) THEN enhanced_segments
    ELSE LET change == advanced_flip(segments, i, last_speaker_change_time)
             speaker == IF change THEN Flip(current_speaker) ELSE current_speaker
             changed_at == IF change THEN segments[i].start
                           ELSE last_speaker_change_time
         IN  advanced_loop(segments, i + 1, speaker, changed_at,
                           Append(enhanced_segments, WithSpeaker(segments[i], speaker)))

advanced_speaker_change_detection(segments) ==
    IF segments = <<>> THEN <<>> ELSE advanced_loop(segments, 1, 1, 0, <<>>)

(***************************************************************************)
(* balanced_speaker_detection                                              *)
(***************************************************************************)
\* Rule 1: clear speaker change phrases
balanced_rule1(text) ==
    \E k \in 1..Len(clear_speaker_changes) : Contains(text, clear_speaker_changes[k])

\* mutant of balanced_rule2: an interjection flips without a gap before it
balanced_rule2_no_gap(words, duration, gap, time_since_change) ==
    /\ duration < 300
    /\ words # <<>> /\ words[1] \in responses
    /\ time_since_change > 100

\* Rule 2: short interjections after gaps
balanced_rule2(words, duration, gap, time_since_change) ==
    /\ duration < 300
    /\ words # <<>> /\ words[1] \in responses
    /\ gap > 30 /\ time_since_change > 100

\* Rule 3: contradictory statements
balanced_rule3(text, gap, time_since_change) ==
    /\ StartsWith(text, <<"w", "e", "l", "l">>)
    /\ gap > 20 /\ time_since_change > 100

\* Rule 4: topic transitions
balanced_rule4(text, gap, time_since_change) ==
    \E transition \in topic_shifts :
        Contains(text, transition) /\ gap > 30 /\ time_since_change > 150

\* Rule 5: question/answer patterns
balanced_rule5(prev_text, gap, time_since_change) ==
    /\ LET first_words == Take(Split(prev_text), 3)
       IN  \/ EndsWith(prev_text, <<"?">>)
           \/ \E word \in balanced_question_words : InSeq(word, first_words)
    /\ gap > 20 /\ time_since_change > 100

\* Rule 6: very short responses
balanced_rule6(text, words, duration, gap, time_since_change) ==
    /\ duration < 200
    /\ Len(words) <= 3 /\ Strip(text) \in short_responses
    /\ time_since_change > 200 /\ gap > 20

\* Rule 7: name mentions
balanced_rule7(text, time_since_change) ==
    /\ \E name \in participant_names : Contains(text, name)
    /\ time_since_change > 100

\* mutant of balanced_rule8: the gap threshold is 1.0 s instead of 0.8 s
balanced_rule8_late(gap, prev_duration, time_since_change) ==
    /\ gap > 100
    /\ prev_duration > 200 /\ time_since_change > 300

\* Rule 8: significant gaps with substantial previous content
balanced_rule8(gap, prev_duration, time_since_change) ==
    /\ gap > 80
    /\ prev_duration > 200 /\ time_since_change > 300

\* should_change_speaker for segments[i] (1-based), given last_change_time
balanced_should_change(segments, i, last_change_time) ==
    /\ i > 1
    /\ LET segment == segments[i]
           text == NormText(segment)
           words == Split(text)
           duration == segment.end - segment.start
           start_time == segment.start
           time_since_change == start_time - last_change_time
           prev_segment == segments[i - 1]
           gap == start_time - prev_segment.end
           prev_text == NormText(prev_segment)
           prev_duration == prev_segment.end - prev_segment.start
       IN  \/ balanced_rule1(text)
           \/ balanced_rule2(words, duration, gap, time_since_change)
           \/ balanced_rule3(text, gap, time_since_change)
           \/ balanced_rule4(text, gap, time_since_change)
           \/ balanced_rule5(prev_text, gap, time_since_change)
           \/ balanced_rule6(text, words, duration, gap, time_since_change)
           \/ balanced_rule7(text, time_since_change)
           \/ balanced_rule8(gap, prev_duration, time_since_change)

\* mutant of balanced_loop: last_change_time is not updated on a flip
RECURSIVE balanced_loop_stale_time(_, _, _, _, _)
balanced_loop_stale_time(segments, i, current_speaker, last_change_time, enhanced_segments) ==
    IF i > Len(segments) THEN enhanced_segments
    ELSE LET change == balanced_should_change(segments, i, last_change_time)
             speaker == IF change THEN Flip(current_speaker) ELSE current_speaker
         IN  balanced_loop_stale_time(segments, i + 1, speaker, last_change_time,
                           Append(enhanced_segments, WithSpeaker(segments[i], speaker)))

RECURSIVE balanced_loop(_, _, _, _, _)
balanced_loop(segments, i, current_speaker, last_change_time, enhanced_segments) ==
    IF i > Len(segments) THEN enhanced_segments
    ELSE LET change == balanced_should_change(segments, i, last_change_time)
             speaker == IF change THEN Flip(current_speaker) ELSE current_speaker
             changed_at == IF change THEN segments[i].start ELSE last_change_time
         IN  balanced_loop(segments, i + 1, speaker, changed_at,
                           Append(enhanced_segments, WithSpeaker(segments[i], speaker)))

balanced_speaker_detection(segments) ==
    IF segments = <<>> THEN <<>> ELSE balanced_loop(segments, 1, 1, 0, <<>>)

\* the value of last_change_time when balanced_speaker_detection reaches
\* segments[i] (1-based)
RECURSIVE balanced_last_change_time(_, _)
balanced_last_change_time(segments, i) ==
    IF i = 1 THEN 0
    ELSE LET before == balanced_last_change_time(segments, i - 1)
         IN  IF balanced_should_change(segments, i - 1, before)
             THEN segments[i - 1].start ELSE before

\* the value of last_speaker_change_time when the second pass of
\* advanced_speaker_change_detection reaches segments[i] (1-based)
RECURSIVE advanced_last_change_time(_, _)
advanced_last_change_time(segments, i) ==
    IF i = 1 THEN 0
    ELSE LET before == advanced_last_change_time(segments, i - 1)
         IN  IF advanced_flip(segments, i - 1, before)
             THEN segments[i - 1].start ELSE before

(***************************************************************************)
(* combine_consecutive_segments, on segments in the final format           *)
(* (start_time, end_time, speaker_id, text, confidence, language).         *)
(***************************************************************************)
\* mutant of combine_into: the end time is not extended
combine_into_keep_end(current_segment, segment) ==
    [current_segment EXCEPT
        !.text = RStrip(current_segment.text) \o <<" ">> \o Strip(segment.text),
        !.confidence = (current_segment.confidence + segment.confidence) \div 2]

\* mutant of combine_into: the confidence of the first segment is kept
combine_into_first_confidence(current_segment, segment) ==
    [current_segment EXCEPT
        !.end_time = segment.end_time,
        !.text = RStrip(current_segment.text) \o <<" ">> \o Strip(segment.text)]

\* the branch taken when current_segment["speaker_id"] == segment["speaker_id"]
combine_into(current_segment, segment) ==
    [current_segment EXCEPT
        !.end_time = segment.end_time,
        !.text = RStrip(current_segment.text) \o <<" ">> \o Strip(segment.text),
        !.confidence = (current_segment.confidence + segment.confidence) \div 2]

\* mutant of combine_loop: a merged pair is closed at once, so that a run of
\* three is merged as a pair and a single
RECURSIVE combine_loop_pairs(_, _, _, _, _)
combine_loop_pairs(segments, i, have_current, current_segment, combined_segments) ==
    IF i > Len(segments)
    THEN IF have_current THEN Append(combined_segments, current_segment)
         ELSE combined_segments
    ELSE LET segment == segments[i] IN
         IF ~have_current
         THEN combine_loop_pairs(segments, i + 1, TRUE, segment, combined_segments)
         ELSE IF current_segment.speaker_id = segment.speaker_id
         THEN combine_loop_pairs(segments, i + 1, FALSE, <<>>,
                  Append(combined_segments, combine_into(current_segment, segment)))
         ELSE combine_loop_pairs(segments, i + 1, TRUE, segment,
                                 Append(combined_segments, current_segment))

\* mutant of combine_loop: the last open segment is not flushed
RECURSIVE combine_loop_noflush(_, _, _, _, _)
combine_loop_noflush(segments, i, have_current, current_segment, combined_segments) ==
    IF i > Len(segments) THEN combined_segments
    ELSE LET segment == segments[i] IN
         IF ~have_current
         THEN combine_loop_noflush(segments, i + 1, TRUE, segment, combined_segments)
         ELSE IF current_segment.speaker_id = segment.speaker_id
         THEN combine_loop_noflush(segments, i + 1, TRUE,
                  combine_into(current_segment, segment), combined_segments)
         ELSE combine_loop_noflush(segments, i + 1, TRUE, segment,
                                   Append(combined_segments, current_segment))

\* the for loop: i is the next index, have_current is current_segment is not None
RECURSIVE combine_loop(_, _, _, _, _)
combine_loop(segments, i, have_current, current_segment, combined_segments) ==
    IF i > Len(segments)
    THEN IF have_current THEN Append(combined_segments, current_segment)
         ELSE combined_segments
    ELSE LET segment == segments[i] IN
         IF ~have_current
         THEN combine_loop(segments, i + 1, TRUE, segment, combined_segments)
         ELSE IF current_segment.speaker_id = segment.speaker_id
         THEN combine_loop(segments, i + 1, TRUE,
                           combine_into(current_segment, segment), combined_segments)
         ELSE combine_loop(segments, i + 1, TRUE, segment,
                           Append(combined_segments, current_segment))

combine_consecutive_segments(segments) ==
    IF segments = <<>> THEN <<>>
    ELSE combine_loop(segments, 1, FALSE, <<>>, <<>>)

(***************************************************************************)
(* The acoustic adapter of process_audio: the speaker of one segment.      *)
(***************************************************************************)
Max(a, b) == IF a > b THEN a ELSE b

Min(a, b) == IF a < b THEN a ELSE b

\* f"Speaker_{speaker}" for the labels of the acoustic engine
AcousticLabel(speaker) ==
    CASE speaker = "SPEAKER_00" -> "Speaker_SPEAKER_00"
      [] speaker = "SPEAKER_01" -> "Speaker_SPEAKER_01"
      [] OTHER -> "Speaker_SPEAKER_02"

\* mutant of find_speaker: `>=` for `>`, so that the last of several turns
\* with the same overlap wins
RECURSIVE find_speaker_last_wins(_, _, _, _, _, _)
find_speaker_last_wins(start_time, end_time, turns, k, speaker_id, best_overlap) ==
    IF k > Len(turns) THEN speaker_id
    ELSE LET turn == turns[k]
             overlap_start == Max(start_time, turn.start)
             overlap_end == Min(end_time, turn.end)
             better == overlap_start < overlap_end
                       /\ overlap_end - overlap_start >= best_overlap
         IN  find_speaker_last_wins(start_time, end_time, turns, k + 1,
                          IF better THEN AcousticLabel(turn.speaker) ELSE speaker_id,
                          IF better THEN overlap_end - overlap_start ELSE best_overlap)

\* mutant of find_speaker: `<=` for `<` in the overlap test and `>=` for `>`,
\* so that a turn that only touches the segment is taken
RECURSIVE find_speaker_touching(_, _, _, _, _, _)
find_speaker_touching(start_time, end_time, turns, k, speaker_id, best_overlap) ==
    IF k > Len(turns) THEN speaker_id
    ELSE LET turn == turns[k]
             overlap_start == Max(start_time, turn.start)
             overlap_end == Min(end_time, turn.end)
             better == overlap_start <= overlap_end
                       /\ overlap_end - overlap_start >= best_overlap
         IN  find_speaker_touching(start_time, end_time, turns, k + 1,
                          IF better THEN AcousticLabel(turn.speaker) ELSE speaker_id,
                          IF better THEN overlap_end - overlap_start ELSE best_overlap)

\* the loop over diarization.itertracks(yield_label=True); k is the next turn
RECURSIVE find_speaker(_, _, _, _, _, _)
find_speaker(start_time, end_time, turns, k, speaker_id, best_overlap) ==
    IF k > Len(turns) THEN speaker_id
    ELSE LET turn == turns[k]
             overlap_start == Max(start_time, turn.start)
             overlap_end == Min(end_time, turn.end)
             better == overlap_start < overlap_end
                       /\ overlap_end - overlap_start > best_overlap
         IN  find_speaker(start_time, end_time, turns, k + 1,
                          IF better THEN AcousticLabel(turn.speaker) ELSE speaker_id,
                          IF better THEN overlap_end - overlap_start ELSE best_overlap)

\* the default of segment.get("confidence", 0.8), in units of 1/160
default_confidence == 128

\* segment.get("confidence", 0.8)
GetConfidence(segment) ==
    IF "confidence" \in DOMAIN segment THEN segment.confidence
    ELSE default_confidence

\* the dict appended to segments for one transcript segment on the acoustic path
acoustic_segment(segment, turns, language) ==
    [start_time |-> segment.start,
     end_time   |-> segment.end,
     speaker_id |-> find_speaker(segment.start, segment.end, turns, 1, "Unknown", 0),
     text       |-> Strip(segment.text),
     confidence |-> GetConfidence(segment),
     language   |-> language]

\* the dict appended to segments for one labeled segment ("Convert to final format")
final_segment(segment, language) ==
    [start_time |-> segment.start,
     end_time   |-> segment.end,
     speaker_id |-> segment.speaker_id,
     text       |-> Strip(segment.text),
     confidence |-> GetConfidence(segment),
     language   |-> language]

\* segment["text"] raises KeyError
RaisesKeyError(segment) == "text" \notin DOMAIN segment

(***************************************************************************)
(* Inputs.  A transcript is built from shapes: each segment starts gap     *)
(* after the end of the previous one (the first after time 0), lasts dur   *)
(* and carries text unless has_text is FALSE (a malformed segment).        *)
(***************************************************************************)
\* the longest transcript that process_audio is run on
MaxSegs == 3

\* the largest number of speaker turns the acoustic engine returns
MaxTurns == 1

Shape(gap, dur, has_text, text) ==
    [gap |-> gap, dur |-> dur, has_text |-> has_text, text |-> text]

TextHello == <<" ", "H", "e", "l", "l", "o", " ", "e", "v", "e", "r", "y", "o", "n", "e">>

TextYeah == <<"y", "e", "a", "h">>

TextTeam == <<" ", "T", "h", "e", " ", "t", "e", "a", "m", " ", "m", "e", "t">>

RECURSIVE BuildSegments(_, _)
BuildSegments(shapes, prev_end) ==
    IF shapes = <<>> THEN <<>>
    ELSE LET s == Head(shapes)
             t == [start |-> prev_end + s.gap, end |-> prev_end + s.gap + s.dur]
             segment == IF s.has_text THEN [text |-> s.text] @@ t ELSE t
         IN  <<segment>> \o BuildSegments(Tail(shapes), segment.end)

\* every transcript of at most n segments over a set of shapes
Transcripts(shapes, n) ==
    {BuildSegments(s, 0) : s \in UNION {[1..k -> shapes] : k \in 0..n}}

ProcessShapes ==
    { Shape(0, 250, TRUE, TextHello),
      Shape(90, 250, TRUE, TextTeam),
      Shape(0, 50, TRUE, TextYeah),
      Shape(0, 50, TRUE, TextTeam),
      Shape(40, 50, FALSE, <<>>) }

ProcessTranscripts == Transcripts(ProcessShapes, MaxSegs)

Turn(start, end, speaker) == [start |-> start, end |-> end, speaker |-> speaker]

ProcessTurns == { Turn(0, 300, "SPEAKER_00"), Turn(200, 700, "SPEAKER_01") }

ProcessDiarizations == UNION {[1..k -> ProcessTurns] : k \in 0..MaxTurns}

(***************************************************************************)
(* State of main and process_audio.                                        *)
(***************************************************************************)
VARIABLES
    pc,                  \* the position in main / process_audio
    hf_token,            \* whether hf_token is truthy
    result,              \* the transcription result (result["segments"], language)
    diarization,         \* the turns of diarization.itertracks, in order
    seg_index,           \* the next segment of the attribution loop
    segments,            \* the list segments of process_audio
    diarization_success, \* the flag diarization_success
    enhanced_segments,   \* the list enhanced_segments
    speaker_count,       \* the local speaker_count
    visited,             \* history: the orchestrator states entered, in order
    pipeline_calls,      \* history: the number of invocations of the pipeline
    returned             \* what main prints: nothing yet, a result or an error

(***************************************************************************)
(* State of the function-level specifications: one function applied to     *)
(* an argument drawn from a bounded set.                                   *)
(***************************************************************************)
VARIABLES
    call,                \* the functions applied so far, in order
    arg,                 \* the argument (a sequence of segments)
    arg_turns,           \* the second argument of the adapter (the turns)
    ret                  \* the values returned so far, in order

proc_vars == <<pc, hf_token, result, diarization, seg_index, segments,
               diarization_success, enhanced_segments, speaker_count,
               visited, pipeline_calls, returned>>

fn_vars == <<call, arg, arg_turns, ret>>

vars == <<pc, hf_token, result, diarization, seg_index, segments,
          diarization_success, enhanced_segments, speaker_count,
          visited, pipeline_calls, returned, call, arg, arg_turns, ret>>

NoResult == [segments |-> <<>>, language |-> "unknown"]

ProcInit ==
    /\ pc = "main"
    /\ result = NoResult
    /\ diarization = <<>>
    /\ seg_index = 1
    /\ segments = <<>>
    /\ diarization_success = FALSE
    /\ enhanced_segments = <<>>
    /\ speaker_count = 0
    /\ visited = <<>>
    /\ pipeline_calls = 0
    /\ returned = [kind |-> "none"]

FnIdle ==
    /\ call = <<>>
    /\ arg = <<>>
    /\ arg_turns = <<>>
    /\ ret = <<>>

Init ==
    /\ ProcInit
    /\ hf_token \in BOOLEAN
    /\ FnIdle

\* the structured error record main prints before sys.exit(1)
ErrorRecord(error) == [kind |-> "error", error |-> error]

(***************************************************************************)
(* main                                                                    *)
(***************************************************************************)
\* check_dependencies / check_whisper_only: without Whisper main exits
CheckDependencies ==
    /\ pc = "main"
    /\ \E whisper_ok \in BOOLEAN :
          IF whisper_ok
          THEN pc' = "check_file" /\ returned' = returned
          ELSE pc' = "exit" /\ returned' = ErrorRecord("Missing required packages")
    /\ UNCHANGED <<hf_token, result, diarization, seg_index, segments,
                   diarization_success, enhanced_segments, speaker_count,
                   visited, pipeline_calls, fn_vars>>

\* os.path.exists(args.audio_file)
CheckAudioFile ==
    /\ pc = "check_file"
    /\ \E exists \in BOOLEAN :
          IF exists
          THEN pc' = "transcribe" /\ returned' = returned
          ELSE pc' = "exit" /\ returned' = ErrorRecord("Audio file not found")
    /\ UNCHANGED <<hf_token, result, diarization, seg_index, segments,
                   diarization_success, enhanced_segments, speaker_count,
                   visited, pipeline_calls, fn_vars>>

(***************************************************************************)
(* process_audio                                                           *)
(***************************************************************************)
\* mutant of Transcribe: the acoustic path is attempted without a token
Transcribe_ignores_token ==
    /\ pc = "transcribe"
    /\ \E transcript \in ProcessTranscripts :
          result' = [segments |-> transcript, language |-> "en"]
    /\ segments' = <<>>
    /\ diarization_success' = FALSE
    /\ pc' = "load_pipeline"
    /\ visited' = <<"ACOUSTIC_ATTEMPTED">>
    /\ UNCHANGED <<hf_token, diarization, seg_index, enhanced_segments,
                   speaker_count, pipeline_calls, returned, fn_vars>>

\* whisper.load_model / transcribe returns a result; then `if hf_token:`
Transcribe ==
    /\ pc = "transcribe"
    /\ \E transcript \in ProcessTranscripts :
          result' = [segments |-> transcript, language |-> "en"]
    /\ segments' = <<>>
    /\ diarization_success' = FALSE
    /\ pc' = IF hf_token THEN "load_pipeline" ELSE "heuristic"
    /\ visited' = IF hf_token THEN <<"ACOUSTIC_ATTEMPTED">> ELSE <<>>
    /\ UNCHANGED <<hf_token, diarization, seg_index, enhanced_segments,
                   speaker_count, pipeline_calls, returned, fn_vars>>

\* whisper.load_model / transcribe raises: main's except prints the error
TranscribeFails ==
    /\ pc = "transcribe"
    /\ pc' = "exit"
    /\ returned' = ErrorRecord("Processing failed")
    /\ UNCHANGED <<hf_token, result, diarization, seg_index, segments,
                   diarization_success, enhanced_segments, speaker_count,
                   visited, pipeline_calls, fn_vars>>

\* the import of Pipeline and Pipeline.from_pretrained, inside the try
LoadPipeline ==
    /\ pc = "load_pipeline"
    /\ \E loaded \in BOOLEAN :
          pc' = IF loaded THEN "invoke_pipeline" ELSE "heuristic"
    /\ UNCHANGED <<hf_token, result, diarization, seg_index, segments,
                   diarization_success, enhanced_segments, speaker_count,
                   visited, pipeline_calls, returned, fn_vars>>

\* diarization = pipeline(audio_file, **kwargs), inside the try
InvokePipeline ==
    /\ pc = "invoke_pipeline"
    /\ pipeline_calls' = pipeline_calls + 1
    /\ \/ \E turns \in ProcessDiarizations :
             /\ diarization' = turns
             /\ seg_index' = 1
             /\ pc' = "attribute"
       \/ /\ pc' = "heuristic"
          /\ UNCHANGED <<diarization, seg_index>>
    /\ UNCHANGED <<hf_token, result, segments, diarization_success,
                   enhanced_segments, speaker_count, visited, returned, fn_vars>>

\* one iteration of `for segment in result["segments"]`, inside the try:
\* segment["text"] raises KeyError on a malformed segment and the iteration
\* of the engine's tracks may raise; either is caught by `except Exception`
AttributeSegment ==
    /\ pc = "attribute"
    /\ seg_index <= Len(result.segments)
    /\ LET segment == result.segments[seg_index] IN
       \/ /\ ~RaisesKeyError(segment)
          /\ segments' = Append(segments,
                                acoustic_segment(segment, diarization, result.language))
          /\ seg_index' = seg_index + 1
          /\ pc' = pc
       \/ /\ pc' = "heuristic"
          /\ UNCHANGED <<segments, seg_index>>
    /\ UNCHANGED <<hf_token, result, diarization, diarization_success,
                   enhanced_segments, speaker_count, visited, pipeline_calls,
                   returned, fn_vars>>

\* mutant of AttributeDone: the flag is not set, so that the fallback runs
AttributeDone_flag_unset ==
    /\ pc = "attribute"
    /\ seg_index > Len(result.segments)
    /\ visited' = Append(visited, "ACOUSTIC_SUCCEEDED")
    /\ pc' = "heuristic"
    /\ UNCHANGED <<hf_token, result, diarization, seg_index, segments,
                   diarization_success, enhanced_segments, speaker_count,
                   pipeline_calls, returned, fn_vars>>

\* mutant of AttributeDone: the acoustic output goes through the merger
AttributeDone_merged ==
    /\ pc = "attribute"
    /\ seg_index > Len(result.segments)
    /\ diarization_success' = TRUE
    /\ visited' = Append(visited, "ACOUSTIC_SUCCEEDED")
    /\ pc' = "combine"
    /\ UNCHANGED <<hf_token, result, diarization, seg_index, segments,
                   enhanced_segments, speaker_count, pipeline_calls, returned,
                   fn_vars>>

\* the loop is exhausted: diarization_success = True
AttributeDone ==
    /\ pc = "attribute"
    /\ seg_index > Len(result.segments)
    /\ diarization_success' = TRUE
    /\ visited' = Append(visited, "ACOUSTIC_SUCCEEDED")
    /\ pc' = "return"
    /\ UNCHANGED <<hf_token, result, diarization, seg_index, segments,
                   enhanced_segments, speaker_count, pipeline_calls, returned,
                   fn_vars>>

\* mutant of HeuristicBalanced: the balanced labeling is accepted as it is
HeuristicBalanced_accepts ==
    /\ pc = "heuristic"
    /\ ~diarization_success
    /\ enhanced_segments' = balanced_speaker_detection(result.segments)
    /\ speaker_count' = SpeakerCount(enhanced_segments')
    /\ visited' = Append(visited, "HEURISTIC_BALANCED")
    /\ pc' = "convert"
    /\ UNCHANGED <<hf_token, result, diarization, seg_index, segments,
                   diarization_success, pipeline_calls, returned, fn_vars>>

\* mutant of HeuristicBalanced: the tier labels the transcript in place
HeuristicBalanced_in_place ==
    /\ pc = "heuristic"
    /\ ~diarization_success
    /\ enhanced_segments' = balanced_speaker_detection(result.segments)
    /\ result' = [result EXCEPT !.segments = enhanced_segments']
    /\ speaker_count' = SpeakerCount(enhanced_segments')
    /\ visited' = Append(visited, "HEURISTIC_BALANCED")
    /\ pc' = IF speaker_count' = 1 THEN "advanced" ELSE "convert"
    /\ UNCHANGED <<hf_token, diarization, seg_index, segments,
                   diarization_success, pipeline_calls, returned, fn_vars>>

\* mutant of HeuristicBalanced: escalation whenever fewer than 2 speakers
HeuristicBalanced_below_two ==
    /\ pc = "heuristic"
    /\ ~diarization_success
    /\ enhanced_segments' = balanced_speaker_detection(result.segments)
    /\ speaker_count' = SpeakerCount(enhanced_segments')
    /\ visited' = Append(visited, "HEURISTIC_BALANCED")
    /\ pc' = IF speaker_count' < 2 THEN "advanced" ELSE "convert"
    /\ UNCHANGED <<hf_token, result, diarization, seg_index, segments,
                   diarization_success, pipeline_calls, returned, fn_vars>>

\* `if not diarization_success:` balanced_speaker_detection(result["segments"])
HeuristicBalanced ==
    /\ pc = "heuristic"
    /\ ~diarization_success
    /\ enhanced_segments' = balanced_speaker_detection(result.segments)
    /\ speaker_count' = SpeakerCount(enhanced_segments')
    /\ visited' = Append(visited, "HEURISTIC_BALANCED")
    /\ pc' = IF speaker_count' = 1 THEN "advanced" ELSE "convert"
    /\ UNCHANGED <<hf_token, result, diarization, seg_index, segments,
                   diarization_success, pipeline_calls, returned, fn_vars>>

\* mutant of HeuristicAdvanced: the simple tier is tried whatever the count
HeuristicAdvanced_always_simple ==
    /\ pc = "advanced"
    /\ enhanced_segments' = advanced_speaker_change_detection(result.segments)
    /\ speaker_count' = SpeakerCount(enhanced_segments')
    /\ visited' = Append(visited, "HEURISTIC_ADVANCED")
    /\ pc' = "simple"
    /\ UNCHANGED <<hf_token, result, diarization, seg_index, segments,
                   diarization_success, pipeline_calls, returned, fn_vars>>

\* `if speaker_count == 1:` advanced_speaker_change_detection(result["segments"])
HeuristicAdvanced ==
    /\ pc = "advanced"
    /\ enhanced_segments' = advanced_speaker_change_detection(result.segments)
    /\ speaker_count' = SpeakerCount(enhanced_segments')
    /\ visited' = Append(visited, "HEURISTIC_ADVANCED")
    /\ pc' = IF speaker_count' = 1 THEN "simple" ELSE "convert"
    /\ UNCHANGED <<hf_token, result, diarization, seg_index, segments,
                   diarization_success, pipeline_calls, returned, fn_vars>>

\* `if speaker_count == 1:` simple_speaker_change_detection(result["segments"])
HeuristicSimple ==
    /\ pc = "simple"
    /\ enhanced_segments' = simple_speaker_change_detection(result.segments)
    /\ visited' = Append(visited, "HEURISTIC_SIMPLE")
    /\ pc' = "convert"
    /\ UNCHANGED <<hf_token, result, diarization, seg_index, segments,
                   diarization_success, speaker_count, pipeline_calls, returned,
                   fn_vars>>

\* "Convert to final format": segments.append({...}) for each labeled segment;
\* segment["text"] raises KeyError on a malformed segment, which leaves
\* process_audio and is printed by main's except
ConvertFinal ==
    /\ pc = "convert"
    /\ IF \E i \in 1..Len(enhanced_segments) : RaisesKeyError(enhanced_segments[i])
       THEN /\ pc' = "exit"
            /\ returned' = ErrorRecord("Processing failed")
            /\ UNCHANGED segments
       ELSE /\ segments' = segments \o
                   [i \in 1..Len(enhanced_segments) |->
                       final_segment(enhanced_segments[i], result.language)]
            /\ pc' = "combine"
            /\ UNCHANGED returned
    /\ UNCHANGED <<hf_token, result, diarization, seg_index,
                   diarization_success, enhanced_segments, speaker_count,
                   visited, pipeline_calls, fn_vars>>

\* segments = combine_consecutive_segments(segments)
Combine ==
    /\ pc = "combine"
    /\ segments' = combine_consecutive_segments(segments)
    /\ pc' = "return"
    /\ UNCHANGED <<hf_token, result, diarization, seg_index,
                   diarization_success, enhanced_segments, speaker_count,
                   visited, pipeline_calls, returned, fn_vars>>

\* mutant of Return: num_speakers is the count left by the tier escalation
Return_stale_count ==
    /\ pc = "return"
    /\ returned' = [kind |-> "result",
                    segments |-> segments,
                    language |-> result.language,
                    diarization_used |-> diarization_success,
                    num_speakers |-> speaker_count]
    /\ visited' = Append(visited, "DONE")
    /\ pc' = "done"
    /\ UNCHANGED <<hf_token, result, diarization, seg_index, segments,
                   diarization_success, enhanced_segments, speaker_count,
                   pipeline_calls, fn_vars>>

\* final_speaker_count and the returned dict, printed by main
Return ==
    /\ pc = "return"
    /\ returned' = [kind |-> "result",
                    segments |-> segments,
                    language |-> result.language,
                    diarization_used |-> diarization_success,
                    num_speakers |-> SpeakerCount(segments)]
    /\ visited' = Append(visited, "DONE")
    /\ pc' = "done"
    /\ UNCHANGED <<hf_token, result, diarization, seg_index, segments,
                   diarization_success, enhanced_segments, speaker_count,
                   pipeline_calls, fn_vars>>

Next ==
    \/ CheckDependencies
    \/ CheckAudioFile
    \/ Transcribe
    \/ TranscribeFails
    \/ LoadPipeline
    \/ InvokePipeline
    \/ AttributeSegment
    \/ AttributeDone
    \/ HeuristicBalanced
    \/ HeuristicAdvanced
    \/ HeuristicSimple
    \/ ConvertFinal
    \/ Combine
    \/ Return

Spec == Init /\ [][Next]_vars

(***************************************************************************)
(* Fairness.  main is a sequential program: while a step is possible, one  *)
(* is taken.  TLC evaluates ENABLED without caching, which makes ENABLED   *)
(* of the three tier actions (a whole labeling each) too costly, so the    *)
(* fairness condition is split: weak fairness of the other actions as      *)
(* they are, and weak fairness of TierStep, which has the enabling         *)
(* condition of the tier actions and which every step of them satisfies.   *)
(***************************************************************************)
\* the actions of Next other than the three tiers
NextLight ==
    \/ CheckDependencies
    \/ CheckAudioFile
    \/ Transcribe
    \/ TranscribeFails
    \/ LoadPipeline
    \/ InvokePipeline
    \/ AttributeSegment
    \/ AttributeDone
    \/ ConvertFinal
    \/ Combine
    \/ Return

\* a step of HeuristicBalanced, HeuristicAdvanced or HeuristicSimple: the
\* tier at pc runs and control moves on
TierStep ==
    /\ \/ pc = "heuristic" /\ ~diarization_success
       \/ pc \in {"advanced", "simple"}
    /\ \E next_pc \in {"advanced", "simple", "convert"} :
          next_pc # pc /\ pc' = next_pc

SpecLive == Init /\ [][Next]_vars /\ WF_vars(NextLight) /\ WF_pc(TierStep)

(***************************************************************************)
(* The detectors as functions: each tier applied to a transcript drawn     *)
(* from DetectTranscripts.                                                 *)
(***************************************************************************)
\* the longest transcript a detector is applied to
MaxDetectSegs == 3

TextRoadmap == <<" ", "S", "o", " ", "l", "e", "t", "'", "s", " ", "d", "i", "s", "c", "u", "s", "s", " ", "t", "h", "e", " ", "r", "o", "a", "d", "m", "a", "p">>

TextQuestion == <<" ", "W", "h", "a", "t", " ", "n", "o", "w", "?">>

TextWell == <<" ", "W", "e", "l", "l", ",", " ", "n", "o">>

TextAnyway == <<" ", "a", "n", "y", "w", "a", "y">>

TextScott == <<"s", "c", "o", "t", "t">>

TextWeeds == <<"i", "n", "t", "o", " ", "t", "h", "e", " ", "w", "e", "e", "d", "s">>

DetectShapes ==
    { Shape(0, 250, TRUE, TextHello),
      Shape(90, 250, TRUE, TextTeam),
      Shape(40, 50, TRUE, TextYeah),
      Shape(0, 50, TRUE, TextYeah),
      Shape(25, 250, TRUE, TextWell),
      Shape(40, 250, TRUE, TextAnyway),
      Shape(25, 250, TRUE, TextQuestion),
      Shape(0, 250, TRUE, TextScott),
      Shape(90, 250, TRUE, TextWeeds),
      Shape(40, 50, FALSE, <<>>) }

\* the end-to-end scenario (0.0, 2.0), (2.0, 2.3), (5.0, 8.0)
ScenarioTranscript ==
    BuildSegments(<< Shape(0, 200, TRUE, Strip(TextHello)),
                     Shape(0, 30, TRUE, TextYeah),
                     Shape(270, 300, TRUE, Strip(TextRoadmap)) >>, 0)

DetectTranscripts ==
    Transcripts(DetectShapes, MaxDetectSegs) \cup {ScenarioTranscript}

\* the process variables of a function-level specification do not move
ProcIdle ==
    /\ pc = "idle"
    /\ hf_token = FALSE
    /\ result = NoResult
    /\ diarization = <<>>
    /\ seg_index = 1
    /\ segments = <<>>
    /\ diarization_success = FALSE
    /\ enhanced_segments = <<>>
    /\ speaker_count = 0
    /\ visited = <<>>
    /\ pipeline_calls = 0
    /\ returned = [kind |-> "none"]

InitDetect ==
    /\ ProcIdle
    /\ call = <<>>
    /\ arg \in DetectTranscripts
    /\ arg_turns = <<>>
    /\ ret = <<>>

DetectSimple ==
    /\ call = <<>>
    /\ call' = <<"simple">>
    /\ ret' = <<simple_speaker_change_detection(arg)>>
    /\ UNCHANGED <<proc_vars, arg, arg_turns>>

DetectAdvanced ==
    /\ call = <<>>
    /\ call' = <<"advanced">>
    /\ ret' = <<advanced_speaker_change_detection(arg)>>
    /\ UNCHANGED <<proc_vars, arg, arg_turns>>

DetectBalanced ==
    /\ call = <<>>
    /\ call' = <<"balanced">>
    /\ ret' = <<balanced_speaker_detection(arg)>>
    /\ UNCHANGED <<proc_vars, arg, arg_turns>>

NextDetect == DetectSimple \/ DetectAdvanced \/ DetectBalanced

SpecDetect == InitDetect /\ [][NextDetect]_vars

(***************************************************************************)
(* The merger as a function: combine_consecutive_segments applied once     *)
(* and twice to a labeled sequence drawn from MergeInputs.                 *)
(***************************************************************************)
\* the longest labeled sequence the merger is applied to
MaxMergeSegs == 3

TextHi == <<" ", "h", "i">>

TextOk == <<" ", "o", "k", " ">>

LabeledShape(gap, dur, speaker_id, text, confidence) ==
    [gap |-> gap, dur |-> dur, speaker_id |-> speaker_id, text |-> text,
     confidence |-> confidence]

MergeShapes ==
    { LabeledShape(gap, 50, speaker_id, tc[1], tc[2]) :
        gap \in {0, 90},
        speaker_id \in {"Speaker_1", "Speaker_2", "Unknown"},
        tc \in {<<TextHi, 128>>, <<TextOk, 80>>} }

RECURSIVE BuildLabeled(_, _)
BuildLabeled(shapes, prev_end) ==
    IF shapes = <<>> THEN <<>>
    ELSE LET s == Head(shapes)
             segment == [start_time |-> prev_end + s.gap,
                         end_time   |-> prev_end + s.gap + s.dur,
                         speaker_id |-> s.speaker_id,
                         text       |-> s.text,
                         confidence |-> s.confidence,
                         language   |-> "en"]
         IN  <<segment>> \o BuildLabeled(Tail(shapes), segment.end_time)

MergeInputs ==
    {BuildLabeled(s, 0) : s \in UNION {[1..k -> MergeShapes] : k \in 0..MaxMergeSegs}}

InitMerge ==
    /\ ProcIdle
    /\ call = <<>>
    /\ arg \in MergeInputs
    /\ arg_turns = <<>>
    /\ ret = <<>>

Merge ==
    /\ call = <<>>
    /\ call' = <<"merge">>
    /\ ret' = <<combine_consecutive_segments(arg)>>
    /\ UNCHANGED <<proc_vars, arg, arg_turns>>

MergeAgain ==
    /\ call = <<"merge">>
    /\ call' = <<"merge", "merge">>
    /\ ret' = Append(ret, combine_consecutive_segments(ret[1]))
    /\ UNCHANGED <<proc_vars, arg, arg_turns>>

NextMerge == Merge \/ MergeAgain

SpecMerge == InitMerge /\ [][NextMerge]_vars

(***************************************************************************)
(* The acoustic adapter as a function: the attribution loop of             *)
(* process_audio applied to segments and turns drawn from bounded sets.    *)
(***************************************************************************)
\* the longest transcript the adapter is applied to
MaxAttrSegs == 2

\* the largest number of turns the adapter is applied to
MaxAttrTurns == 2

AttrShapes ==
    { Shape(0, 450, TRUE, TextHello),
      Shape(0, 550, TRUE, TextTeam),
      Shape(50, 200, TRUE, TextYeah) }

AttrTranscripts == Transcripts(AttrShapes, MaxAttrSegs)

AttrTurns ==
    { Turn(iv[1], iv[2], speaker) :
        iv \in {<<0, 500>>, <<500, 1000>>, <<0, 200>>, <<250, 450>>},
        speaker \in {"SPEAKER_00", "SPEAKER_01"} }

\* itertracks yields the turns sorted by start, then end
SortedTurns(turns) ==
    \A k \in 1..(Len(turns) - 1) :
        \/ turns[k].start < turns[k + 1].start
        \/ turns[k].start = turns[k + 1].start /\ turns[k].end <= turns[k + 1].end

AttrDiarizations ==
    {t \in UNION {[1..k -> AttrTurns] : k \in 0..MaxAttrTurns} : SortedTurns(t)}

\* the whole loop `for segment in result["segments"]` when nothing raises
attribute(transcript, turns, language) ==
    [i \in 1..Len(transcript) |-> acoustic_segment(transcript[i], turns, language)]

InitAttribute ==
    /\ ProcIdle
    /\ call = <<>>
    /\ arg \in AttrTranscripts
    /\ arg_turns \in AttrDiarizations
    /\ ret = <<>>

Attribute ==
    /\ call = <<>>
    /\ call' = <<"attribute">>
    /\ ret' = <<attribute(arg, arg_turns, "en")>>
    /\ UNCHANGED <<proc_vars, arg, arg_turns>>

NextAttribute == Attribute

SpecAttribute == InitAttribute /\ [][NextAttribute]_vars

(***************************************************************************)
(* Properties of the detectors, the merger, the adapter and process_audio. *)
(***************************************************************************)
\* the labels of a sequence of labeled segments
Labels(labeled) == [i \in 1..Len(labeled) |-> labeled[i].speaker_id]

\* C1: for every transcript and every tier, detect returns one labeled
\* segment per input segment, in the input order, each with exactly the
\* fields and values of its input segment plus speaker_id.
C1_DetectKeepsSegments ==
    \A j \in 1..Len(ret) :
        /\ Len(ret[j]) = Len(arg)
        /\ \A i \in 1..Len(arg) :
              /\ DOMAIN ret[j][i] = DOMAIN arg[i] \cup {"speaker_id"}
              /\ \A f \in DOMAIN arg[i] : ret[j][i][f] = arg[i][f]

\* a tier has labeled a transcript of three segments with two speakers
C1_Witness ==
    /\ call = <<"simple">>
    /\ Len(arg) >= 3
    /\ SpeakerCount(ret[1]) = 2
    /\ \E i \in 1..Len(arg) : "text" \in DOMAIN arg[i]

TierNames == {"HEURISTIC_BALANCED", "HEURISTIC_ADVANCED", "HEURISTIC_SIMPLE"}

\* the heuristic tiers run so far, in order
TiersRun == SelectSeq(visited, LAMBDA s : s \in TierNames)

\* the heuristic path has settled on enhanced_segments
TierAccepted ==
    \/ pc \in {"convert", "combine"}
    \/ pc \in {"return", "done"} /\ ~diarization_success

\* C2: the tiers run in the order balanced, advanced, simple, each at most
\* once; advanced runs only after balanced gave exactly 1 speaker, simple only
\* after advanced gave exactly 1 too; the accepted labeling is that of the
\* first tier with at least 2 speakers, or that of simple when all give 1.
C2_TierOrder ==
    LET balanced == balanced_speaker_detection(result.segments)
        advanced == advanced_speaker_change_detection(result.segments)
        simple == simple_speaker_change_detection(result.segments)
    IN  /\ TiersRun \in { <<>>,
                          <<"HEURISTIC_BALANCED">>,
                          <<"HEURISTIC_BALANCED", "HEURISTIC_ADVANCED">>,
                          <<"HEURISTIC_BALANCED", "HEURISTIC_ADVANCED",
                            "HEURISTIC_SIMPLE">> }
        /\ Len(TiersRun) >= 2 => SpeakerCount(balanced) = 1
        /\ Len(TiersRun) >= 3 => SpeakerCount(advanced) = 1
        /\ TierAccepted =>
              /\ SpeakerCount(balanced) >= 2 =>
                    enhanced_segments = balanced /\ Len(TiersRun) = 1
              /\ SpeakerCount(balanced) = 1 /\ SpeakerCount(advanced) >= 2 =>
                    enhanced_segments = advanced /\ Len(TiersRun) = 2
              /\ SpeakerCount(balanced) = 1 /\ SpeakerCount(advanced) = 1 =>
                    enhanced_segments = simple /\ Len(TiersRun) = 3

\* all three tiers ran and the simple tier found the second speaker
C2_Witness ==
    /\ pc = "done"
    /\ Len(TiersRun) = 3
    /\ returned.kind = "result"
    /\ returned.num_speakers = 2

\* the acoustic attempt was made and failed: the fallback has started
AcousticFailed ==
    /\ hf_token
    /\ "ACOUSTIC_ATTEMPTED" \in {visited[i] : i \in 1..Len(visited)}
    /\ "HEURISTIC_BALANCED" \in {visited[i] : i \in 1..Len(visited)}

\* C3: after a failure of the acoustic path, at whichever step, the run never
\* ends in an error: it ends in a result with diarization_used = false.
C3_AcousticFailureAbsorbed ==
    AcousticFailed /\ pc \in {"done", "exit"} =>
        returned.kind = "result" /\ returned.diarization_used = FALSE

\* "Convert to final format" applied to a whole labeled sequence
FinalFormat(labeled, language) ==
    [i \in 1..Len(labeled) |-> final_segment(labeled[i], language)]

\* C4: a result of the heuristic path is exactly the merge of the accepted
\* tier's output (in the final format), with non-decreasing start times.
C4_HeuristicResultIsMerge ==
    returned.kind = "result" /\ ~returned.diarization_used =>
        /\ returned.segments =
              combine_consecutive_segments(
                  FinalFormat(enhanced_segments, result.language))
        /\ \A i \in 1..(Len(returned.segments) - 1) :
              returned.segments[i].start_time <= returned.segments[i + 1].start_time

\* C5: merge(merge(x)) = merge(x), in length and in every field.
C5_MergeIdempotent ==
    Len(ret) = 2 => ret[2] = ret[1]

\* merge was applied twice to a sequence in which it had something to merge
\* and something to keep apart
C5_Witness ==
    /\ Len(ret) = 2
    /\ Len(ret[1]) >= 2
    /\ Len(ret[1]) < Len(arg)

\* C6: the set of speaker labels of merge(x) is that of x.
C6_MergeKeepsLabels ==
    Len(ret) >= 1 => SpeakerSet(ret[1]) = SpeakerSet(arg)

\* merge collapsed a run in a sequence with three labels or an Unknown
C6_Witness ==
    /\ call = <<"merge">>
    /\ Len(ret[1]) < Len(arg)
    /\ "Unknown" \in SpeakerSet(arg)
    /\ Cardinality(SpeakerSet(arg)) >= 2

\* the first indices of the maximal runs of equal speaker_id in x
RunStarts(x) ==
    {i \in 1..Len(x) : i = 1 \/ x[i].speaker_id # x[i - 1].speaker_id}

\* the first and last index of the k-th run of x
RunFirst(x, k) ==
    CHOOSE i \in RunStarts(x) : Cardinality({j \in RunStarts(x) : j <= i}) = k

RunLast(x, k) ==
    IF k = Cardinality(RunStarts(x)) THEN Len(x) ELSE RunFirst(x, k + 1) - 1

\* the unit of time [t, t + 1] lies in the range of one of x[a..b]
Covered(x, a, b, t) ==
    \E i \in a..b : x[i].start_time <= t /\ t + 1 <= x[i].end_time

\* C7 as claimed: the time range of every merged segment is a subset of the
\* union of the ranges of the input segments merged into it.
C7_RangeWithinUnion ==
    Len(ret) >= 1 =>
        \A k \in 1..Len(ret[1]) :
            \A t \in ret[1][k].start_time..(ret[1][k].end_time - 1) :
                Covered(arg, RunFirst(arg, k), RunLast(arg, k), t)

\* C7 as amended: every merged segment starts where the first segment of its
\* run starts and ends where the last one ends; its range is the span of the
\* run, and is covered by the run's ranges when the run has no silent gap.
C7_RangeIsSpan ==
    Len(ret) >= 1 =>
        /\ Len(ret[1]) = Cardinality(RunStarts(arg))
        /\ \A k \in 1..Len(ret[1]) :
              LET a == RunFirst(arg, k)
                  b == RunLast(arg, k)
              IN  /\ ret[1][k].start_time = arg[a].start_time
                  /\ ret[1][k].end_time = arg[b].end_time
                  /\ (\A i \in a..(b - 1) : arg[i].end_time = arg[i + 1].start_time)
                        => \A t \in ret[1][k].start_time..(ret[1][k].end_time - 1) :
                               Covered(arg, a, b, t)

\* merge collapsed a run that has a silent gap inside
C7_Witness ==
    /\ call = <<"merge">>
    /\ \E k \in 1..Len(ret[1]) :
          \E i \in RunFirst(arg, k)..(RunLast(arg, k) - 1) :
              arg[i].end_time < arg[i + 1].start_time

\* the precondition of C8 at segment i (1-based, i > 1) of a transcript
LongGapCase(transcript, i) ==
    /\ transcript[i].start - transcript[i - 1].end > 80
    /\ transcript[i - 1].end - transcript[i - 1].start > 200
    /\ transcript[i].start - balanced_last_change_time(transcript, i) > 300

\* C8: under the balanced tier a segment whose gap exceeds 0.8 s, after a
\* segment longer than 2.0 s and more than 3.0 s after the last change, has
\* the speaker opposite to that of the segment before it.
C8_LongGapFlips ==
    call = <<"balanced">> =>
        \A i \in 2..Len(arg) :
            LongGapCase(arg, i) =>
                /\ ret[1][i].speaker_id # ret[1][i - 1].speaker_id
                /\ {ret[1][i].speaker_id, ret[1][i - 1].speaker_id}
                       = {"Speaker_1", "Speaker_2"}

\* the long-gap case after an earlier change, on a segment that matches a
\* lexical rule as well
C8_Witness ==
    /\ call = <<"balanced">>
    /\ \E i \in 2..Len(arg) :
          /\ LongGapCase(arg, i)
          /\ balanced_last_change_time(arg, i) > 0
    /\ \E i \in 2..Len(arg) :
          /\ LongGapCase(arg, i)
          /\ balanced_rule1(NormText(arg[i]))

\* max(0, min(seg.end, turn.end) - max(seg.start, turn.start))
Overlap(segment, turn) ==
    Max(0, Min(segment.end, turn.end) - Max(segment.start, turn.start))

\* the first turn, in turn order, whose overlap with the segment is largest
BestTurn(segment, turns) ==
    CHOOSE k \in 1..Len(turns) :
        /\ \A m \in 1..Len(turns) : Overlap(segment, turns[m]) <= Overlap(segment, turns[k])
        /\ \A m \in 1..(k - 1) : Overlap(segment, turns[m]) < Overlap(segment, turns[k])

\* the turns [0, 5] = A, [5, 10] = B against the segments [0, 4.5], [4.5, 10]
ScenarioOverlap ==
    /\ Len(arg) = 2 /\ Len(arg_turns) = 2
    /\ <<arg[1].start, arg[1].end, arg[2].start, arg[2].end>> = <<0, 450, 450, 1000>>
    /\ arg_turns = <<Turn(0, 500, "SPEAKER_00"), Turn(500, 1000, "SPEAKER_01")>>

\* C9: the adapter gives each segment the speaker of the turn with the
\* largest overlap, the first such turn in turn order when several tie; the
\* scenario yields A for the first segment and B for the second.
C9_LargestOverlapWins ==
    call = <<"attribute">> =>
        /\ \A i \in 1..Len(arg) :
              (\E k \in 1..Len(arg_turns) : Overlap(arg[i], arg_turns[k]) > 0) =>
                  ret[1][i].speaker_id =
                      AcousticLabel(arg_turns[BestTurn(arg[i], arg_turns)].speaker)
        /\ ScenarioOverlap =>
              Labels(ret[1]) = <<"Speaker_SPEAKER_00", "Speaker_SPEAKER_01">>

\* two turns of different speakers tie for the largest overlap with a segment
C9_Witness ==
    /\ call = <<"attribute">>
    /\ \E i \in 1..Len(arg) :
          \E k, m \in 1..Len(arg_turns) :
              /\ k < m
              /\ Overlap(arg[i], arg_turns[k]) > 0
              /\ Overlap(arg[i], arg_turns[k]) = Overlap(arg[i], arg_turns[m])
              /\ arg_turns[k].speaker # arg_turns[m].speaker
              /\ BestTurn(arg[i], arg_turns) = k

\* C10: the adapter labels a segment Unknown exactly when no turn has a
\* strictly positive overlap with it, and emits the segment all the same.
C10_UnknownIffNoOverlap ==
    call = <<"attribute">> =>
        /\ Len(ret[1]) = Len(arg)
        /\ \A i \in 1..Len(arg) :
              /\ ret[1][i].start_time = arg[i].start
              /\ ret[1][i].end_time = arg[i].end
              /\ ret[1][i].speaker_id = "Unknown"
                    <=> \A k \in 1..Len(arg_turns) :
                            Min(arg[i].end, arg_turns[k].end)
                                - Max(arg[i].start, arg_turns[k].start) <= 0

\* a segment is Unknown although a turn ends exactly where it starts
C10_Witness ==
    /\ call = <<"attribute">>
    /\ \E i \in 1..Len(arg) :
          /\ ret[1][i].speaker_id = "Unknown"
          /\ \E k \in 1..Len(arg_turns) : arg_turns[k].end = arg[i].start


(***************************************************************************)
(* Properties of the acoustic path and of the returned result.             *)
(***************************************************************************)
\* the orchestrator states entered so far
Visited == {visited[i] : i \in 1..Len(visited)}

\* C11: the acoustic result is accepted (ACOUSTIC_SUCCEEDED, diarization_used
\* = true) only when the attempt produced at least one labeled segment; an
\* attempt that completes on an empty transcript is not an acoustic success.
C11_AcousticSuccessHasSegments ==
    /\ "ACOUSTIC_SUCCEEDED" \in Visited => Len(segments) >= 1
    /\ pc = "done" /\ returned.diarization_used => Len(returned.segments) >= 1

\* a result was returned on the acoustic path
AcousticResult ==
    pc = "done" /\ returned.kind = "result" /\ returned.diarization_used

\* C12: when the acoustic path succeeds its output is returned unmerged: one
\* output segment per transcript segment, in order, with that segment's own
\* start and end (also where neighbours carry the same label), and no
\* heuristic tier has run.
C12_AcousticOutputUnmerged ==
    AcousticResult =>
        /\ Len(returned.segments) = Len(result.segments)
        /\ \A i \in 1..Len(result.segments) :
              /\ returned.segments[i].start_time = result.segments[i].start
              /\ returned.segments[i].end_time = result.segments[i].end
              /\ returned.segments[i] =
                    acoustic_segment(result.segments[i], diarization, result.language)
        /\ TiersRun = <<>>

\* an acoustic result in which two consecutive segments carry the label of
\* the same speaker turn
C12_Witness ==
    /\ AcousticResult
    /\ \E i \in 1..(Len(returned.segments) - 1) :
          /\ returned.segments[i].speaker_id = returned.segments[i + 1].speaker_id
          /\ returned.segments[i].speaker_id # "Unknown"

\* C13: in every result returned by process_audio, on either path,
\* num_speakers is the number of distinct speaker_id values among the
\* returned segments.
C13_NumSpeakersIsDistinctCount ==
    pc = "done" /\ returned.kind = "result" =>
        returned.num_speakers =
            Cardinality({returned.segments[i].speaker_id :
                            i \in 1..Len(returned.segments)})

\* a heuristic result of two speakers in which the merger has collapsed a run
C13_Witness ==
    /\ pc = "done"
    /\ returned.kind = "result"
    /\ ~returned.diarization_used
    /\ returned.num_speakers = 2
    /\ Len(returned.segments) < Len(result.segments)

\* C14: diarization_used is true exactly when a token was supplied and the
\* acoustic attempt completed without failure, and then every returned
\* segment is the adapter's labeling of its transcript segment; without a
\* token the engine is never invoked and diarization_used is false.
C14_DiarizationUsedIffAcoustic ==
    /\ ~hf_token => pipeline_calls = 0 /\ "ACOUSTIC_ATTEMPTED" \notin Visited
    /\ pc = "done" /\ returned.kind = "result" =>
          /\ returned.diarization_used <=>
                /\ hf_token
                /\ "ACOUSTIC_SUCCEEDED" \in Visited
                /\ "HEURISTIC_BALANCED" \notin Visited
                /\ seg_index > Len(result.segments)
          /\ returned.diarization_used =>
                returned.segments =
                    [i \in 1..Len(result.segments) |->
                        acoustic_segment(result.segments[i], diarization,
                                         result.language)]
          /\ ~hf_token => ~returned.diarization_used

\* an acoustic result of two segments or more, after one call of the engine
C14_Witness ==
    /\ AcousticResult
    /\ hf_token
    /\ pipeline_calls = 1
    /\ Len(returned.segments) >= 2

(***************************************************************************)
(* Properties of the heuristic tiers.                                      *)
(***************************************************************************)
\* whether the tier flips the speaker at segment i (1-based) of transcript
TierFlips(tier, transcript, i) ==
    CASE tier = "simple" -> simple_should_change(transcript, i)
      [] tier = "advanced" ->
            advanced_flip(transcript, i, advanced_last_change_time(transcript, i))
      [] tier = "balanced" ->
            balanced_should_change(transcript, i,
                                   balanced_last_change_time(transcript, i))

\* C15: in every tier each label is Speaker_1 or Speaker_2, the first segment
\* is Speaker_1, and segment i > 0 carries the other label than segment i-1
\* exactly when the tier's change condition holds for it, and the same label
\* otherwise: one flip, however many rules match at once.
C15_BinaryOneFlip ==
    \A j \in 1..Len(ret) :
        LET labels == Labels(ret[j]) IN
        /\ \A i \in 1..Len(labels) : labels[i] \in {"Speaker_1", "Speaker_2"}
        /\ labels # <<>> => labels[1] = "Speaker_1"
        /\ \A i \in 2..Len(labels) :
              (labels[i] # labels[i - 1]) <=> TierFlips(call[j], arg, i)

\* the simple tier has flipped at a segment that two of its rules match
C15_Witness ==
    /\ call = <<"simple">>
    /\ \E i \in 2..Len(arg) :
          /\ Cardinality(simple_rule_matches(arg, i)) >= 2
          /\ ret[1][i].speaker_id # ret[1][i - 1].speaker_id

\* the balanced tier has been applied to the end-to-end scenario
ScenarioDetected == call = <<"balanced">> /\ arg = ScenarioTranscript

\* C16 as stated: on the scenario (0.0, 2.0, "Hello everyone"), (2.0, 2.3,
\* "yeah"), (5.0, 8.0, "So let's discuss the roadmap") the balanced tier
\* flips at segment 2: segment 1 is Speaker_1 and segment 2 is Speaker_2.
C16_ScenarioFlipsAtSegment2 ==
    ScenarioDetected =>
        ret[1][1].speaker_id = "Speaker_1" /\ ret[1][2].speaker_id = "Speaker_2"

\* C16 amended: on that scenario the balanced tier flips nowhere; the three
\* segments are all labeled Speaker_1.
C16_ScenarioNoFlip ==
    ScenarioDetected =>
        Labels(ret[1]) = <<"Speaker_1", "Speaker_1", "Speaker_1">>

\* the balanced tier has labeled the three segments of the scenario
C16_Witness ==
    /\ ScenarioDetected
    /\ Len(ret[1]) = 3
    /\ NormText(arg[2]) = TextYeah
    /\ arg[2].start - arg[1].end = 0

\* every entry of every lexicon of the three tiers
AllLexicons ==
    simple_interjections \cup advanced_interjections \cup advanced_question_words
    \cup flow_indicators \cup participant_names \cup topic_shifts \cup responses
    \cup balanced_question_words \cup short_responses
    \cup {clear_speaker_changes[k] : k \in 1..Len(clear_speaker_changes)}

\* the normalized text contains a lexicon entry or a question mark
LexiconMatch(text) ==
    \/ \E entry \in AllLexicons : Contains(text, entry)
    \/ Contains(text, <<"?">>)

\* a monologue: a non-empty transcript of segments with text, none matching
\* a lexicon, with no gap between consecutive segments above 0.3 s
Monologue(transcript) ==
    /\ transcript # <<>>
    /\ \A i \in 1..Len(transcript) :
          /\ "text" \in DOMAIN transcript[i]
          /\ ~LexiconMatch(NormText(transcript[i]))
    /\ \A i \in 2..Len(transcript) :
          transcript[i].start - transcript[i - 1].end <= 30

\* num_speakers of the returned result is the distinct count of its segments
NumSpeakersAccurate ==
    returned.num_speakers =
        Cardinality({returned.segments[i].speaker_id :
                        i \in 1..Len(returned.segments)})

RECURSIVE FoldConfidence(_, _, _)
FoldConfidence(x, a, b) ==
    IF b = a THEN x[a].confidence
    ELSE (FoldConfidence(x, a, b - 1) + x[b].confidence) \div 2

\* the sum of the confidences of x[a..b]
RECURSIVE SumConfidence(_, _, _)
SumConfidence(x, a, b) ==
    IF b < a THEN 0 ELSE SumConfidence(x, a, b - 1) + x[b].confidence

\* C18: a merged segment keeps the start of the first segment of its run,
\* takes the end of the last one, and its confidence is the left fold
\* m1 = c1, mj = (m(j-1) + cj) / 2 of the run's confidences.
C18_ConfidenceIsLeftFold ==
    Len(ret) >= 1 =>
        /\ Len(ret[1]) = Cardinality(RunStarts(arg))
        /\ \A k \in 1..Len(ret[1]) :
              LET a == RunFirst(arg, k)
                  b == RunLast(arg, k)
              IN  /\ ret[1][k].start_time = arg[a].start_time
                  /\ ret[1][k].end_time = arg[b].end_time
                  /\ ret[1][k].confidence = FoldConfidence(arg, a, b)

\* merge collapsed a run of three whose folded confidence is not the
\* arithmetic mean of the three
C18_Witness ==
    /\ call = <<"merge">>
    /\ \E k \in 1..Len(ret[1]) :
          LET a == RunFirst(arg, k)
              b == RunLast(arg, k)
          IN  /\ b - a + 1 = 3
              /\ 3 * ret[1][k].confidence # SumConfidence(arg, a, b)

(***************************************************************************)
(* Error terminations.                                                     *)
(***************************************************************************)
\* whisper has returned a transcript
TranscriptionSucceeded == result # NoResult

\* C19: once transcription has succeeded the run ends in a result, whatever
\* the transcript and whatever happens on the diarization path; the only
\* error terminations are the missing packages and the missing audio file.
C19_NoErrorAfterTranscription ==
    /\ TranscriptionSucceeded /\ pc \in {"done", "exit"} => returned.kind = "result"
    /\ returned.kind = "error" /\ TranscriptionSucceeded =>
          returned.error \in {"Missing required packages", "Audio file not found"}

(***************************************************************************)
(* Malformed segments in the tiers.                                        *)
(***************************************************************************)
\* the transcript with the empty string as text wherever text is missing
WithEmptyText(transcript) ==
    [i \in 1..Len(transcript) |->
        IF "text" \in DOMAIN transcript[i] THEN transcript[i]
        ELSE [text |-> <<>>] @@ transcript[i]]

\* the tier named tier applied to transcript
Detect(tier, transcript) ==
    CASE tier = "simple" -> simple_speaker_change_detection(transcript)
      [] tier = "advanced" -> advanced_speaker_change_detection(transcript)
      [] tier = "balanced" -> balanced_speaker_detection(transcript)

\* C20: in every tier a segment without a text field is treated exactly like
\* one whose text is the empty string: the tier returns, with a labeled
\* segment for it and for every following segment, and the labels are those
\* of the transcript with "" in place of each missing text.
C20_MissingTextAsEmpty ==
    \A j \in 1..Len(ret) :
        /\ Len(ret[j]) = Len(arg)
        /\ \A i \in 1..Len(arg) : ret[j][i].speaker_id \in {"Speaker_1", "Speaker_2"}
        /\ Labels(ret[j]) = Labels(Detect(call[j], WithEmptyText(arg)))

\* a tier has labeled a transcript in which a segment without text is
\* followed by another segment
C20_Witness ==
    /\ Len(ret) = 1
    /\ \E i \in 1..(Len(arg) - 1) :
          /\ "text" \notin DOMAIN arg[i]
          /\ "speaker_id" \in DOMAIN ret[1][i]
          /\ "speaker_id" \in DOMAIN ret[1][i + 1]

(***************************************************************************)
(* Empty input.                                                            *)
(***************************************************************************)
\* process_audio has returned on an empty transcript without a token
EmptyRun ==
    /\ pc = "done"
    /\ ~hf_token
    /\ TranscriptionSucceeded
    /\ result.segments = <<>>

\* C21: empty input gives empty output: each tier and the merger return the
\* empty sequence on the empty sequence, and process_audio on an empty
\* transcript without a token returns zero segments and num_speakers = 0
\* after the balanced tier alone.
C21_EmptyInEmptyOut ==
    /\ simple_speaker_change_detection(<<>>) = <<>>
    /\ advanced_speaker_change_detection(<<>>) = <<>>
    /\ balanced_speaker_detection(<<>>) = <<>>
    /\ combine_consecutive_segments(<<>>) = <<>>
    /\ EmptyRun =>
          /\ returned.kind = "result"
          /\ returned.segments = <<>>
          /\ returned.num_speakers = 0
          /\ ~returned.diarization_used
          /\ TiersRun = <<"HEURISTIC_BALANCED">>

\* a run on an empty transcript without a token has returned its result
C21_Witness ==
    /\ EmptyRun
    /\ returned.kind = "result"
    /\ visited = <<"HEURISTIC_BALANCED", "DONE">>

(***************************************************************************)
(* The flip conditions of the tiers, read off the labels they return.      *)
(***************************************************************************)
\* segment i (1-based, i > 1) of labeled carries another label than i - 1
FlippedAt(labeled, i) == labeled[i].speaker_id # labeled[i - 1].speaker_id

\* the start of the last segment before i at which labeled flips, 0 if none
LastFlipStart(transcript, labeled, i) ==
    LET flips == {j \in 2..(i - 1) : FlippedAt(labeled, j)} IN
    IF flips = {} THEN 0
    ELSE transcript[CHOOSE j \in flips : \A k \in flips : k <= j].start

\* at least one of the eight rules of the balanced tier holds for segment i
\* (1-based, i > 1), given the time since the last change
EightRules(transcript, i, time_since_change) ==
    LET text == NormText(transcript[i])
        tokens == Split(text)
        prev_text == NormText(transcript[i - 1])
        prev_tokens == Take(Split(prev_text), 3)
        duration == transcript[i].end - transcript[i].start
        prev_duration == transcript[i - 1].end - transcript[i - 1].start
        gap == transcript[i].start - transcript[i - 1].end
    IN  \* fixed-phrase match
        \/ \E k \in 1..Len(clear_speaker_changes) :
               Contains(text, clear_speaker_changes[k])
        \* short interjection after a gap
        \/ /\ tokens # <<>> /\ tokens[1] \in responses
           /\ duration < 300 /\ gap > 30 /\ time_since_change > 100
        \* contradiction opener
        \/ /\ StartsWith(text, <<"w", "e", "l", "l">>)
           /\ gap > 20 /\ time_since_change > 100
        \* topic-shift phrase
        \/ /\ \E phrase \in topic_shifts : Contains(text, phrase)
           /\ gap > 30 /\ time_since_change > 150
        \* question/answer adjacency
        \/ /\ \/ EndsWith(prev_text, <<"?">>)
              \/ \E k \in 1..Len(prev_tokens) : prev_tokens[k] \in balanced_question_words
           /\ gap > 20 /\ time_since_change > 100
        \* terse acknowledgment
        \/ /\ duration < 200 /\ Len(tokens) <= 3 /\ text \in short_responses
           /\ time_since_change > 200 /\ gap > 20
        \* participant name
        \/ /\ \E name \in participant_names : Contains(text, name)
           /\ time_since_change > 100
        \* substantial gap after substantial content
        \/ gap > 80 /\ prev_duration > 200 /\ time_since_change > 300

\* C22: under the balanced tier segment 0 is Speaker_1 and a segment i > 0
\* flips exactly when one of the eight rules holds for it, the time since the
\* last change being counted from the start of the last flipped segment (from
\* 0 before any flip).
C22_BalancedFlipsIffRule ==
    call = <<"balanced">> =>
        /\ arg # <<>> => ret[1][1].speaker_id = "Speaker_1"
        /\ \A i \in 2..Len(arg) :
              FlippedAt(ret[1], i) <=>
                  EightRules(arg, i, arg[i].start - LastFlipStart(arg, ret[1], i))

\* the balanced tier flipped at an interjection and then held at the next
\* one, which came too soon after the flip
C22_Witness ==
    /\ call = <<"balanced">>
    /\ \E i \in 3..Len(arg) :
          /\ FlippedAt(ret[1], i - 1)
          /\ ~FlippedAt(ret[1], i)
          /\ EightRules(arg, i, arg[i].start)

\* C23: under the advanced tier a segment flips only if it is a change point
\* that starts more than min_speaker_duration (1.0 s) after the last change
\* (after 0 before any flip); hence no segment starting at or before 1.0 s
\* flips and any two flipped segments start more than 1.0 s apart.
C23_AdvancedFlipGated ==
    call = <<"advanced">> =>
        /\ arg # <<>> => ret[1][1].speaker_id = "Speaker_1"
        /\ \A i \in 2..Len(arg) :
              FlippedAt(ret[1], i) =>
                  /\ advanced_change_point(arg, i)
                  /\ arg[i].start - LastFlipStart(arg, ret[1], i) > 100
                  /\ arg[i].start > 100
        /\ \A i, j \in 2..Len(arg) :
              i < j /\ FlippedAt(ret[1], i) /\ FlippedAt(ret[1], j) =>
                  arg[j].start - arg[i].start > 100

\* the advanced tier held at a change point that starts within the first
\* second and flipped at a later segment
C23_Witness ==
    /\ call = <<"advanced">>
    /\ \E i \in 2..Len(arg) :
          /\ advanced_change_point(arg, i)
          /\ arg[i].start <= 100
          /\ ~FlippedAt(ret[1], i)
    /\ \E j \in 3..Len(arg) : FlippedAt(ret[1], j)

\* the flip condition of the simple tier with the default thresholds, for
\* segment i (1-based, i > 1)
SimpleRules(transcript, i) ==
    LET tokens == Take(Split(NormText(transcript[i])), 2)
        duration == transcript[i].end - transcript[i].start
        prev_duration == transcript[i - 1].end - transcript[i - 1].start
        gap == transcript[i].start - transcript[i - 1].end
    IN  \/ gap > 80
        \/ duration < 300 /\ \E k \in 1..Len(tokens) : tokens[k] \in simple_interjections
        \/ gap > 30 /\ prev_duration > 100

\* C24: under the simple tier a segment i > 0 flips exactly when gap > 0.8,
\* or duration < 3.0 with an interjection among its first two tokens, or
\* gap > 0.3 after a segment longer than 1.0 s; nothing depends on the time
\* since the last change, so consecutive qualifying segments all flip.
C24_SimpleFlipsIffRule ==
    call = <<"simple">> =>
        /\ arg # <<>> => ret[1][1].speaker_id = "Speaker_1"
        /\ \A i \in 2..Len(arg) : FlippedAt(ret[1], i) <=> SimpleRules(arg, i)

\* the simple tier flipped at two consecutive segments that start less
\* than a second apart
C24_Witness ==
    /\ call = <<"simple">>
    /\ \E i \in 3..Len(arg) :
          /\ FlippedAt(ret[1], i - 1)
          /\ FlippedAt(ret[1], i)
          /\ arg[i].start - arg[i - 1].start < 100
          /\ ret[1][i].speaker_id = ret[1][i - 2].speaker_id

(***************************************************************************)
(* The labels of a heuristic result.                                       *)
(***************************************************************************)
\* a result was returned on the heuristic path
HeuristicResult ==
    pc = "done" /\ returned.kind = "result" /\ ~returned.diarization_used

\* C25: a result returned on the heuristic path has no two consecutive
\* segments with the same speaker_id; its labels alternate Speaker_1,
\* Speaker_2, Speaker_1, ... from Speaker_1, and num_speakers is
\* min(2, number of returned segments).
C25_HeuristicLabelsAlternate ==
    HeuristicResult =>
        LET out == returned.segments IN
        /\ \A i \in 2..Len(out) : out[i].speaker_id # out[i - 1].speaker_id
        /\ \A i \in 1..Len(out) :
              out[i].speaker_id = IF i % 2 = 1 THEN "Speaker_1" ELSE "Speaker_2"
        /\ returned.num_speakers = IF Len(out) < 2 THEN Len(out) ELSE 2

(***************************************************************************)
(* The transcript is not modified.                                         *)
(***************************************************************************)
\* the tier that runs at position p of process_audio
TierAt(p) ==
    CASE p = "heuristic" -> "balanced"
      [] p = "advanced" -> "advanced"
      [] p = "simple" -> "simple"

IsPrefix(s, t) == Len(s) <= Len(t) /\ SubSeq(t, 1, Len(s)) = s

\* the heuristic chains: balanced, optionally advanced, optionally simple
HeuristicChains ==
    { <<"HEURISTIC_BALANCED">>,
      <<"HEURISTIC_BALANCED", "HEURISTIC_ADVANCED">>,
      <<"HEURISTIC_BALANCED", "HEURISTIC_ADVANCED", "HEURISTIC_SIMPLE">> }

\* the complete runs of the orchestrator
CompleteRuns ==
    {<<"ACOUSTIC_ATTEMPTED", "ACOUSTIC_SUCCEEDED", "DONE">>}
    \cup {<<"ACOUSTIC_ATTEMPTED">> \o chain \o <<"DONE">> : chain \in HeuristicChains}
    \cup {chain \o <<"DONE">> : chain \in HeuristicChains}

\* the states visited so far are the beginning of a complete run, which is
\* complete when the run is done; the engine was invoked at most once
VisitOrder ==
    /\ \E run \in CompleteRuns : IsPrefix(visited, run)
    /\ pc = "done" => visited \in CompleteRuns
    /\ "ACOUSTIC_ATTEMPTED" \in Visited <=> hf_token /\ TranscriptionSucceeded
    /\ \A i, j \in 1..Len(visited) : i # j => visited[i] # visited[j]
    /\ pipeline_calls <= 1

\* main has printed a result or an error record
Terminated == pc \in {"done", "exit"} /\ returned.kind \in {"result", "error"}

\* C27: every run reaches DONE or a terminal error; the orchestrator states
\* are visited in the order ACOUSTIC_ATTEMPTED, then ACOUSTIC_SUCCEEDED or
\* the chain balanced, advanced, simple, then DONE, none twice, and the
\* acoustic engine is invoked at most once.
C27_TerminatesInOrder == []VisitOrder /\ <>Terminated

\* a run went from the failed acoustic attempt through the three tiers to DONE
C27_Witness ==
    /\ pc = "done"
    /\ pipeline_calls = 1
    /\ visited = <<"ACOUSTIC_ATTEMPTED", "HEURISTIC_BALANCED", "HEURISTIC_ADVANCED",
                   "HEURISTIC_SIMPLE", "DONE">>
====
